---------------------------- MODULE Spec2Model ----------------------------
(***************************************************************************)
(* A model of chessnaptracker's two game-source adapters (src/chess-com.ts *)
(* and src/lichess.ts).                                                    *)
(*                                                                         *)
(* JavaScript strings that the code parses or formats are modelled as      *)
(* sequences of one-character strings, so that parsing and formatting are  *)
(* computed and not assumed.  null / undefined are modelled by the empty   *)
(* sequence: the code only ever tests these values for truthiness and      *)
(* never produces an empty string in their place.                          *)
(***************************************************************************)
EXTENDS Integers, Sequences, FiniteSets, TLC

VARIABLES
    \* ---- parseClockComment(comment), chess-com.ts:30-37
    comment,            \* the argument; Null when the function is not under evaluation
    parsed,             \* the returned value
    clkDone,            \* TRUE once the function has returned
    \* ---- formatPGN(pgn), chess-com.ts:50-114
    pgn,                \* the plies movePattern matches, in order
    pos,                \* index of the next match movePattern.exec will return
    formattedMoves,
    clocks,
    clockSrc,           \* history: for each clocks entry, the index of its ply in pgn
    currentMoveNumber,
    isWhiteMove,
    previousWhiteTime,
    previousBlackTime,
    \* ---- the move loop of fetchLichessGames, lichess.ts:128-164
    liGame,             \* the raw game: movesArray, clocks (optional), increment
    i,
    moves,
    previousWhiteClock,
    previousBlackClock,
    \* ---- the parameters of a query: ChessNapTracker.tsx:64-75, 101-103
    platform,
    username,
    gameType,
    startDate,
    endDate,
    \* ---- one raw game taken through an adapter's filters and map callback
    rawGame,
    querySide,          \* history: the side of rawGame whose name was queried
    normalized,         \* the adapter's filteredGames for the one raw game
    gameDone,
    \* ---- one call of fetchChessComGames or fetchLichessGames
    tz,                 \* the browser's timezone: hours east of UTC
    pc,                 \* "idle", "index", "archives", "body" or "done"
    relevantArchives,
    archiveIdx,         \* position of the for loop in relevantArchives
    allGames,
    outcome,            \* the returned promise: pending, fulfilled or rejected
    fetchLog,           \* history: the response each request of the call got
    \* ---- parseTimeControl(timeControl), chess-com.ts:116-145
    time_control,       \* the argument; Null when the function is not under evaluation
    timeStr,            \* the returned value
    tcDone,             \* TRUE once the function has returned
    \* ---- the component ChessNapTracker: ChessNapTracker.tsx:62-111
    isLoading,
    games,
    error,
    minTimeFilter,
    inFlight,           \* the adapter calls fetchGames awaits, oldest first
    gamesFrom,          \* history: the platform of the call that produced games
    opened              \* history: the last window.open of a row click

pcVars  == <<comment, parsed, clkDone>>
pgnVars == <<pgn, pos, formattedMoves, clocks, clockSrc, currentMoveNumber,
             isWhiteMove, previousWhiteTime, previousBlackTime>>
liVars  == <<liGame, i, moves, previousWhiteClock, previousBlackClock>>
queryVars == <<platform, username, gameType, startDate, endDate>>
gameVars == <<rawGame, querySide, normalized, gameDone>>
fetchVars == <<tz, pc, relevantArchives, archiveIdx, allGames, outcome, fetchLog>>
tcVars  == <<time_control, timeStr, tcDone>>
uiVars  == <<isLoading, games, error, minTimeFilter, inFlight, gamesFrom, opened>>
vars    == <<pcVars, pgnVars, liVars, queryVars, gameVars, fetchVars, tcVars, uiVars>>

---------------------------------------------------------------------------
(* Strings *)

Null == <<>>

Digit == {"0", "1", "2", "3", "4", "5", "6", "7", "8", "9"}

Whitespace == {" ", "\t", "\n"}

DigitChars == <<"0", "1", "2", "3", "4", "5", "6", "7", "8", "9">>

DigitVal(c) == (CHOOSE d \in 1..10 : DigitChars[d] = c) - 1

\* Number(s) for a string of decimal digits: "05" is 5.
RECURSIVE Number(_)
Number(s) ==
    IF s = <<>> THEN 0
    ELSE 10 * Number(SubSeq(s, 1, Len(s) - 1)) + DigitVal(s[Len(s)])

\* Whether s is a non-empty string of decimal digits
AllDigits(s) == s # <<>> /\ \A k \in 1..Len(s) : s[k] \in Digit

\* n.toString() / `${n}` for an integer n >= 0: no leading zeros.
RECURSIVE toString(_)
toString(n) ==
    IF n < 10 THEN <<DigitChars[n + 1]>>
    ELSE toString(n \div 10) \o <<DigitChars[(n % 10) + 1]>>

\* Math.floor(a / b) for b > 0
Floor(a, b) == a \div b

\* s.padStart(2, '0')
PadStart2(s) == IF Len(s) >= 2 THEN s ELSE <<"0">> \o s

\* s.split(':')
RECURSIVE SplitColon(_)
SplitColon(s) ==
    IF \E k \in 1..Len(s) : s[k] = ":"
    THEN LET k == CHOOSE k \in 1..Len(s) :
                      s[k] = ":" /\ \A j \in 1..(k - 1) : s[j] # ":"
         IN  <<SubSeq(s, 1, k - 1)>> \o SplitColon(SubSeq(s, k + 1, Len(s)))
    ELSE <<s>>

\* The index after the longest run of characters of Class that starts at k.
RunEnd(s, k, Class) ==
    IF k > Len(s) THEN k
    ELSE CHOOSE j \in k..(Len(s) + 1) :
             /\ \A x \in k..(j - 1) : s[x] \in Class
             /\ (j = Len(s) + 1 \/ s[j] \notin Class)

\* Whether the literal lit occurs in s at index k.
HasAt(s, k, lit) ==
    /\ k >= 1
    /\ k + Len(lit) - 1 <= Len(s)
    /\ SubSeq(s, k, k + Len(lit) - 1) = lit

UpperLetters ==
    <<"A", "B", "C", "D", "E", "F", "G", "H", "I", "J", "K", "L", "M",
      "N", "O", "P", "Q", "R", "S", "T", "U", "V", "W", "X", "Y", "Z">>

LowerLetters ==
    <<"a", "b", "c", "d", "e", "f", "g", "h", "i", "j", "k", "l", "m",
      "n", "o", "p", "q", "r", "s", "t", "u", "v", "w", "x", "y", "z">>

\* s.toLowerCase()
toLowerCase(s) ==
    [k \in 1..Len(s) |->
        IF \E n \in 1..Len(UpperLetters) : UpperLetters[n] = s[k]
        THEN LowerLetters[CHOOSE n \in 1..Len(UpperLetters) : UpperLetters[n] = s[k]]
        ELSE s[k]]

\* s.includes(sub)
includes(s, sub) == \E k \in 1..Len(s) : HasAt(s, k, sub)

---------------------------------------------------------------------------
(* chess-com.ts: parseClockComment, calculateTimeSpent, formatPGN *)

Lit_clk == <<"[", "%", "c", "l", "k">>

\* The index after an optional (?:\.\d+) at index k of s, where digitsEnd is
\* the index after the digits that follow index k
FractionEnd(s, k, digitsEnd) ==
    IF HasAt(s, k, <<".">>) /\ digitsEnd > k + 1 THEN digitsEnd ELSE k

\* One attempt of /\[%clk\s+(\d+):(\d+):(\d+(?:\.\d+)?)\]/ at index k of s.
\* Every quantifier is greedy and is followed by a character outside its
\* class, so backtracking finds no match the longest runs do not.
ClkMatchAt(s, k) ==
    LET w0 == k + Len(Lit_clk)
        w1 == RunEnd(s, w0, Whitespace)
        h1 == RunEnd(s, w1, Digit)
        m0 == h1 + 1
        m1 == RunEnd(s, m0, Digit)
        s0 == m1 + 1
        s1 == RunEnd(s, s0, Digit)
        f1 == FractionEnd(s, s1, RunEnd(s, s1 + 1, Digit))
    IN  [ok      |-> /\ HasAt(s, k, Lit_clk)
                     /\ w1 > w0
                     /\ h1 > w1
                     /\ HasAt(s, h1, <<":">>)
                     /\ m1 > m0
                     /\ HasAt(s, m1, <<":">>)
                     /\ s1 > s0
                     /\ HasAt(s, f1, <<"]">>),
         hours   |-> SubSeq(s, w1, h1 - 1),
         minutes |-> SubSeq(s, m0, m1 - 1),
         seconds |-> SubSeq(s, s0, f1 - 1)]

\* Mutant of FloorParseFloat: Math.round instead of Math.floor
RoundParseFloat(seconds) ==
    LET d == RunEnd(seconds, 1, Digit)
        whole == Number(SubSeq(seconds, 1, d - 1))
    IN  IF d + 1 <= Len(seconds) /\ DigitVal(seconds[d + 1]) >= 5
        THEN whole + 1
        ELSE whole

\* Math.floor(parseFloat(seconds)) for seconds matching \d+(?:\.\d+)?
FloorParseFloat(seconds) ==
    Number(SubSeq(seconds, 1, RunEnd(seconds, 1, Digit) - 1))

\* The template literal of chess-com.ts:34
ClockString(hours, minutes, seconds) ==
    hours \o <<":">> \o minutes \o <<":">> \o toString(FloorParseFloat(seconds))

\* The indexes of c at which the pattern matches
ClkMatches(c) == {k \in 1..Len(c) : ClkMatchAt(c, k).ok}

\* chess-com.ts:32-34: the clock string of the match m
ClockOfMatch(m) == ClockString(m.hours, m.minutes, m.seconds)

\* String.prototype.match returns the leftmost match
FirstClkMatch(c, at) == ClkMatchAt(c, CHOOSE k \in at : \A j \in at : k <= j)

ClockOfFirstMatch(c, at) ==
    IF at # {} THEN ClockOfMatch(FirstClkMatch(c, at)) ELSE Null

parseClockComment(c) == ClockOfFirstMatch(c, ClkMatches(c))

\* hours * 3600 + minutes * 60 + seconds of an "H:M:S" string (chess-com.ts:40-44)
TotalSeconds(time) ==
    LET p == SplitColon(time)
    IN  Number(p[1]) * 3600 + Number(p[2]) * 60 + Number(p[3])

\* chess-com.ts:46-47: the difference, kept only when > 0
PositiveOrUndefined(timeSpent) ==
    IF timeSpent > 0 THEN toString(timeSpent) ELSE Null

calculateTimeSpent(currentTime, previousTime) ==
    PositiveOrUndefined(TotalSeconds(previousTime) - TotalSeconds(currentTime))

\* The local variables of formatPGN before the first match (chess-com.ts:57-64)
FormatPGNStart ==
    [formattedMoves    |-> <<>>,
     clocks            |-> <<>>,
     clockSrc          |-> <<>>,
     currentMoveNumber |-> 1,
     isWhiteMove       |-> TRUE,
     previousWhiteTime |-> Null,
     previousBlackTime |-> Null]

\* cleanMove: the matched text without its brace annotation
CleanMove(t) == [num |-> t.num, dots |-> t.dots, san |-> t.san]

\* Mutant of PreviousTimeFor: the trackers of the two colors exchanged
PreviousTimeFor_OtherColor(f) ==
    IF f.isWhiteMove THEN f.previousBlackTime ELSE f.previousWhiteTime

\* The previous clock formatPGN compares a ply against (chess-com.ts:79-83)
PreviousTimeFor(f) ==
    IF f.isWhiteMove THEN f.previousWhiteTime ELSE f.previousBlackTime

\* Mutant of PlyWithBrace: the move counter advances after every ply
PlyWithBrace_CountsEveryPly(f, t, k) ==
    LET clock == parseClockComment(t.comment)
    IN  IF clock # Null
        THEN [f EXCEPT !.formattedMoves    = Append(@, CleanMove(t)),
                       !.clocks            = Append(@,
                                               [time       |-> clock,
                                                moveText   |-> t.san,
                                                moveNumber |-> f.currentMoveNumber,
                                                isWhite    |-> f.isWhiteMove,
                                                timeSpent  |-> Null]),
                       !.clockSrc          = Append(@, k),
                       !.currentMoveNumber = @ + 1,
                       !.isWhiteMove       = ~@]
        ELSE f

\* chess-com.ts:81-83: timeSpent of a ply, given the same color's previous clock
TimeSpentSince(clock, prev) ==
    IF prev # Null THEN calculateTimeSpent(clock, prev) ELSE Null

\* Mutant of PlyWithClock: the move counter advances after a white ply
PlyWithClock_CountsAfterWhite(f, t, k, clock, timeSpent) ==
    IF clock # Null
    THEN [formattedMoves    |-> Append(f.formattedMoves, CleanMove(t)),
          clocks            |-> Append(f.clocks,
                                  [time       |-> clock,
                                   moveText   |-> t.san,
                                   moveNumber |-> f.currentMoveNumber,
                                   isWhite    |-> f.isWhiteMove,
                                   timeSpent  |-> timeSpent]),
          clockSrc          |-> Append(f.clockSrc, k),
          currentMoveNumber |-> IF f.isWhiteMove THEN f.currentMoveNumber + 1
                                ELSE f.currentMoveNumber,
          isWhiteMove       |-> ~f.isWhiteMove,
          previousWhiteTime |-> IF f.isWhiteMove THEN clock
                                ELSE f.previousWhiteTime,
          previousBlackTime |-> IF f.isWhiteMove THEN f.previousBlackTime
                                ELSE clock]
    ELSE f

\* chess-com.ts:76-99: the ply is recorded only when its annotation has a clock
PlyWithClock(f, t, k, clock, timeSpent) ==
    IF clock # Null
    THEN [formattedMoves    |-> Append(f.formattedMoves, CleanMove(t)),
          clocks            |-> Append(f.clocks,
                                  [time       |-> clock,
                                   moveText   |-> t.san,
                                   moveNumber |-> f.currentMoveNumber,
                                   isWhite    |-> f.isWhiteMove,
                                   timeSpent  |-> timeSpent]),
          clockSrc          |-> Append(f.clockSrc, k),
          currentMoveNumber |-> IF f.isWhiteMove THEN f.currentMoveNumber
                                ELSE f.currentMoveNumber + 1,
          isWhiteMove       |-> ~f.isWhiteMove,
          previousWhiteTime |-> IF f.isWhiteMove THEN clock
                                ELSE f.previousWhiteTime,
          previousBlackTime |-> IF f.isWhiteMove THEN f.previousBlackTime
                                ELSE clock]
    ELSE f

PlyParsed(f, t, k, clock) ==
    PlyWithClock(f, t, k, clock, TimeSpentSince(clock, PreviousTimeFor(f)))

\* chess-com.ts:70-100: a match that carries a brace annotation
PlyWithBrace(f, t, k) == PlyParsed(f, t, k, parseClockComment(t.comment))

\* chess-com.ts:101-107: a match without a brace annotation
PlyWithoutBrace(f, t) ==
    [f EXCEPT !.formattedMoves    = Append(@, CleanMove(t)),
              !.currentMoveNumber = IF f.isWhiteMove THEN @ ELSE @ + 1,
              !.isWhiteMove       = ~@]

\* One iteration of the while loop of chess-com.ts:66-108 on the k-th match t
FormatPGNIter(f, t, k) ==
    IF t.hasBrace THEN PlyWithBrace(f, t, k) ELSE PlyWithoutBrace(f, t)

RECURSIVE FormatPGNLoop(_, _, _)
FormatPGNLoop(f, p, k) ==
    IF k > Len(p) THEN f ELSE FormatPGNLoop(FormatPGNIter(f, p[k], k), p, k + 1)

\* chess-com.ts:110-113
FormatPGNResult(f) == [text |-> f.formattedMoves, clocks |-> f.clocks]

formatPGN(p) == FormatPGNResult(FormatPGNLoop(FormatPGNStart, p, 1))

---------------------------------------------------------------------------
(* lichess.ts: formatClockTime, calculateTimeSpent, the move loop *)

formatClockTime(centiseconds) ==
    LET totalSeconds == Floor(centiseconds, 100)
        minutes == Floor(totalSeconds, 60)
        seconds == totalSeconds % 60
    IN  toString(minutes) \o <<":">> \o PadStart2(toString(seconds))

\* Mutant of PositiveSecondsOrUndefined: only negative values are dropped
PositiveSecondsOrUndefined_KeepsZero(timeSpent) ==
    IF timeSpent < 0 THEN Null ELSE toString(timeSpent) \o <<"s">>

\* lichess.ts:61-63
PositiveSecondsOrUndefined(timeSpent) ==
    IF timeSpent <= 0 THEN Null ELSE toString(timeSpent) \o <<"s">>

calculateTimeSpentLichess(currentClock, previousClock, increment) ==
    IF currentClock = Null \/ previousClock = Null THEN Null
    ELSE LET c == SplitColon(currentClock)
             p == SplitColon(previousClock)
             currentTotal  == Number(c[1]) * 60 + Number(c[2])
             previousTotal == Number(p[1]) * 60 + Number(p[2])
         IN  PositiveSecondsOrUndefined(previousTotal - currentTotal + increment)

\* Mutant of Increment: the increment is left out of the difference
Increment_Ignored(game) == 0

\* lichess.ts:133: game.clock?.increment || 0
Increment(game) == IF game.hasClock THEN game.clock.increment ELSE 0

\* lichess.ts:139
CurrentClock(game, k) ==
    IF game.hasClocks /\ k < Len(game.clocks)
    THEN formatClockTime(game.clocks[k + 1])
    ELSE Null

\* lichess.ts:141-154, for the ply at 0-based index k
MoveObj(game, k, prevWhite, prevBlack) ==
    LET move == game.movesArray[k + 1]
        isWhite == (k % 2 = 0)
        currentClock == CurrentClock(game, k)
    IN  IF isWhite
        THEN [move |-> move, moveNumber |-> Floor(k, 2) + 1,
              clockWhite |-> currentClock,
              timeSpentWhite |-> calculateTimeSpentLichess(currentClock, prevWhite,
                                                           Increment(game)),
              clockBlack |-> Null, timeSpentBlack |-> Null, white |-> TRUE]
        ELSE [move |-> move, moveNumber |-> Floor(k, 2) + 1,
              clockWhite |-> Null, timeSpentWhite |-> Null,
              clockBlack |-> currentClock,
              timeSpentBlack |-> calculateTimeSpentLichess(currentClock, prevBlack,
                                                           Increment(game)),
              white |-> FALSE]

---------------------------------------------------------------------------
(* chess-com.ts:116-145, parseTimeControl *)

\* s.split('+')
RECURSIVE SplitPlus(_)
SplitPlus(s) ==
    IF \E k \in 1..Len(s) : s[k] = "+"
    THEN LET k == CHOOSE k \in 1..Len(s) :
                      s[k] = "+" /\ \A j \in 1..(k - 1) : s[j] # "+"
         IN  <<SubSeq(s, 1, k - 1)>> \o SplitPlus(SubSeq(s, k + 1, Len(s)))
    ELSE <<s>>

NaN == [nan |-> TRUE, v |-> 0]

\* Number(s) for a string of digits and other characters: the empty string
\* is 0, a string of decimal digits is its value, any other string is NaN
NumberOrNaN(s) ==
    IF s = <<>> THEN [nan |-> FALSE, v |-> 0]
    ELSE IF AllDigits(s) THEN [nan |-> FALSE, v |-> Number(s)]
    ELSE NaN

\* The element at index k of parts.map(Number); Number(undefined) is NaN
NumberAt(parts, k) == IF k <= Len(parts) THEN NumberOrNaN(parts[k]) ELSE NaN

\* chess-com.ts:118-122
DayCodes ==
    {[code |-> <<"1", "/", "8", "6", "4", "0", "0">>,
      text |-> <<"1", " ", "d", "a", "y">>],
     [code |-> <<"1", "/", "2", "5", "9", "2", "0", "0">>,
      text |-> <<"3", " ", "d", "a", "y", "s">>],
     [code |-> <<"1", "/", "4", "3", "2", "0", "0", "0">>,
      text |-> <<"5", " ", "d", "a", "y", "s">>],
     [code |-> <<"1", "/", "6", "0", "4", "8", "0", "0">>,
      text |-> <<"7", " ", "d", "a", "y", "s">>],
     [code |-> <<"1", "/", "1", "2", "0", "9", "6", "0", "0">>,
      text |-> <<"1", "4", " ", "d", "a", "y", "s">>]}

\* Mutant of BaseTimeText: the seconds are not padded to two digits
BaseTimeText_Unpadded(minutes, seconds) ==
    IF minutes > 0
    THEN toString(minutes)
             \o (IF seconds > 0 THEN <<":">> \o toString(seconds) ELSE <<>>)
    ELSE toString(seconds) \o <<"s">>

\* chess-com.ts:130-137
BaseTimeText(minutes, seconds) ==
    IF minutes > 0
    THEN toString(minutes)
             \o (IF seconds > 0 THEN <<":">> \o PadStart2(toString(seconds)) ELSE <<>>)
    ELSE toString(seconds) \o <<"s">>

\* chess-com.ts:140
IncrementText(increment) ==
    <<"+">> \o (IF ~increment.nan THEN toString(increment.v) ELSE <<"0">>)

\* chess-com.ts:125-144
StandardTimeControl(baseTime, increment) ==
    IF ~baseTime.nan
    THEN BaseTimeText(Floor(baseTime.v, 60), baseTime.v % 60) \o IncrementText(increment)
    ELSE <<"-">>

SplitTimeControl(parts) == StandardTimeControl(NumberAt(parts, 1), NumberAt(parts, 2))

parseTimeControl(timeControl) ==
    IF \E d \in DayCodes : d.code = timeControl
    THEN (CHOOSE d \in DayCodes : d.code = timeControl).text
    ELSE SplitTimeControl(SplitPlus(timeControl))

---------------------------------------------------------------------------
(* chess-com.ts:147-282, fetchChessComGames: the filters and the map callback *)

SecondsPerDay == 86400

StandardFen == "rnbqkbnr/pppppppp/8/8/8/8/PPPPPPPP/RNBQKBNR w KQkq - 0 1"

\* A date input: a "YYYY-MM-DD" string, as the number of its day since the
\* epoch, or the empty string / undefined
NoDate == [given |-> FALSE, day |-> 0]

\* chess-com.ts:154
StartTimestamp(sd) == IF sd.given THEN sd.day * SecondsPerDay ELSE 0

\* chess-com.ts:155; inf stands for Infinity
EndTimestamp(ed) ==
    IF ed.given THEN [inf |-> FALSE, v |-> ed.day * SecondsPerDay]
    ELSE [inf |-> TRUE, v |-> 0]

\* x <= endTimestamp
LeqEnd(x, e) == e.inf \/ x <= e.v

\* x >= endTimestamp
GeqEnd(x, e) == ~e.inf /\ x >= e.v

\* chess-com.ts:216-220; an absent end_time is 0
InWindow(game, sd, ed) ==
    /\ game.end_time # 0
    /\ game.end_time >= StartTimestamp(sd)
    /\ LeqEnd(game.end_time, EndTimestamp(ed))

\* chess-com.ts:221-226
SpeedMatches(game, gt) ==
    IF gt = "all" THEN game.time_class \in {"blitz", "rapid"}
    ELSE game.time_class = gt

\* chess-com.ts:227-230; an absent rules is ""
StandardRules(game) == game.rules = "" \/ game.rules = "chess"

\* chess-com.ts:231-234; an absent initial_setup is ""
StandardSetup(game) == game.initial_setup = "" \/ game.initial_setup = StandardFen

Lit_bot == <<"b", "o", "t">>

Lit_computer == <<"c", "o", "m", "p", "u", "t", "e", "r">>

\* Mutant of IsWhiteA: the names compared as written
IsWhiteA_CaseSensitive(game, user) == game.white.username = user

\* chess-com.ts:237 and 243
IsWhiteA(game, user) == toLowerCase(game.white.username) = toLowerCase(user)

\* chess-com.ts:235-241
NotBotA(game, user) ==
    LET opponent == IF IsWhiteA(game, user)
                    THEN toLowerCase(game.black.username)
                    ELSE toLowerCase(game.white.username)
    IN  ~includes(opponent, Lit_bot) /\ ~includes(opponent, Lit_computer)

\* The five filters of chess-com.ts:215-241
PassesA(game, user, sd, ed, gt) ==
    /\ InWindow(game, sd, ed)
    /\ SpeedMatches(game, gt)
    /\ StandardRules(game)
    /\ StandardSetup(game)
    /\ NotBotA(game, user)

\* chess-com.ts:246-251
ResultA(game, isWhite) ==
    IF game.white.result = "win" THEN (IF isWhite THEN "win" ELSE "loss")
    ELSE IF game.black.result = "win" THEN (IF isWhite THEN "loss" ELSE "win")
    ELSE "draw"

\* chess-com.ts:244
PlayerRatingA(game, isWhite) ==
    IF isWhite THEN game.white.rating ELSE game.black.rating

\* The map callback of chess-com.ts:242-268.  date is the end time in
\* milliseconds, which orders as its ISO string does; gameType is the pair
\* the template literal joins.
NormalizedA(game, isWhite, f) ==
    [id          |-> game.url,
     date        |-> game.end_time * 1000,
     whitePlayer |-> game.white.username,
     blackPlayer |-> game.black.username,
     result      |-> ResultA(game, isWhite),
     rating      |-> PlayerRatingA(game, isWhite),
     gameType    |-> <<game.time_class, IF game.rated THEN " rated" ELSE " casual">>,
     timeControl |-> parseTimeControl(game.time_control),
     pgn         |-> f.text,
     clocks      |-> f.clocks,
     expanded    |-> FALSE]

NormalizeA(game, user) ==
    NormalizedA(game, IsWhiteA(game, user), formatPGN(game.pgn))

\* arr.filter(keep), for keep given as the set of kept elements
RECURSIVE SeqFilter(_, _)
SeqFilter(q, Keep) ==
    IF q = <<>> THEN <<>>
    ELSE IF Head(q) \in Keep THEN <<Head(q)>> \o SeqFilter(Tail(q), Keep)
    ELSE SeqFilter(Tail(q), Keep)

\* arr.sort((a, b) => new Date(b.date).getTime() - new Date(a.date).getTime()):
\* a stable insertion of each element after the elements not older than it
RECURSIVE SortByDateDesc(_)
SortByDateDesc(q) ==
    IF q = <<>> THEN <<>>
    ELSE LET rest == SortByDateDesc(SubSeq(q, 1, Len(q) - 1))
             x    == q[Len(q)]
             n    == Cardinality({k \in 1..Len(rest) : rest[k].date >= x.date})
         IN  SubSeq(rest, 1, n) \o <<x>> \o SubSeq(rest, n + 1, Len(rest))

\* arr.filter of chess-com.ts:215-241
RECURSIVE KeptA(_, _, _, _, _)
KeptA(q, user, sd, ed, gt) ==
    IF q = <<>> THEN <<>>
    ELSE (IF PassesA(Head(q), user, sd, ed, gt) THEN <<Head(q)>> ELSE <<>>)
             \o KeptA(Tail(q), user, sd, ed, gt)

\* arr.map of chess-com.ts:242-268
MapNormalizeA(kept, user) == [k \in 1..Len(kept) |-> NormalizeA(kept[k], user)]

\* chess-com.ts:215-269
FilteredGamesA(all, user, sd, ed, gt) ==
    SortByDateDesc(MapNormalizeA(KeptA(all, user, sd, ed, gt), user))

---------------------------------------------------------------------------
(* lichess.ts:67-194, fetchLichessGames: the filters and the map callback *)

Lit_stockfish == <<"s", "t", "o", "c", "k", "f", "i", "s", "h">>

Lit_engine == <<"e", "n", "g", "i", "n", "e">>

\* lichess.ts:108-110; an absent initialFen is ""
StandardStart(game) == game.initialFen = "" \/ game.initialFen = StandardFen

\* lichess.ts:111-127; an absent aiLevel is 0
NotEngineB(game, user) ==
    LET w == game.players.white
        b == game.players.black
        opponent == IF toLowerCase(w.user.name) = toLowerCase(user)
                    THEN toLowerCase(b.user.name)
                    ELSE toLowerCase(w.user.name)
    IN  /\ w.aiLevel = 0 /\ b.aiLevel = 0
        /\ ~includes(opponent, Lit_bot)
        /\ ~includes(opponent, Lit_stockfish)
        /\ ~includes(opponent, Lit_engine)

PassesB(game, user) == StandardStart(game) /\ NotEngineB(game, user)

\* The for loop of lichess.ts:135-164 from index k on
RECURSIVE LichessMoveLoop(_, _, _, _, _)
LichessMoveLoop(game, k, out, prevWhite, prevBlack) ==
    IF k >= Len(game.movesArray) THEN out
    ELSE IF game.movesArray[k + 1] = ""
         THEN LichessMoveLoop(game, k + 1, out, prevWhite, prevBlack)
         ELSE LET m == MoveObj(game, k, prevWhite, prevBlack)
              IN  LichessMoveLoop(game, k + 1, Append(out, m),
                                  IF m.white THEN m.clockWhite ELSE prevWhite,
                                  IF m.white THEN prevBlack ELSE m.clockBlack)

\* lichess.ts:171-173; an absent winner is ""
ResultB(game) ==
    IF game.winner # "" THEN (IF game.winner = "white" THEN "win" ELSE "loss")
    ELSE "draw"

\* lichess.ts:174
RatingB(game) == game.players.white.rating

\* The map callback of lichess.ts:128-180.  date is createdAt, which orders
\* as its ISO string does; timeControl is "-" (dash) or the pair the
\* template literal joins: initial (seconds, shown divided by 60), increment.
NormalizeB(game) ==
    [id          |-> game.id,
     date        |-> game.createdAt,
     whitePlayer |-> game.players.white.user.name,
     blackPlayer |-> game.players.black.user.name,
     result      |-> ResultB(game),
     rating      |-> RatingB(game),
     gameType    |-> <<game.speed, IF game.rated THEN " rated" ELSE " casual">>,
     timeControl |-> IF game.hasClock
                     THEN [dash |-> FALSE, initial |-> game.clock.initial,
                           increment |-> game.clock.increment]
                     ELSE [dash |-> TRUE, initial |-> 0, increment |-> 0],
     moves       |-> LichessMoveLoop(game, 0, <<>>, Null, Null),
     expanded    |-> FALSE]

\* arr.filter of lichess.ts:107-127
RECURSIVE KeptB(_, _)
KeptB(q, user) ==
    IF q = <<>> THEN <<>>
    ELSE (IF PassesB(Head(q), user) THEN <<Head(q)>> ELSE <<>>)
             \o KeptB(Tail(q), user)

\* arr.map of lichess.ts:128-180
MapNormalizeB(kept) == [k \in 1..Len(kept) |-> NormalizeB(kept[k])]

\* lichess.ts:107-181
FilteredGamesB(parsedGames, user) ==
    SortByDateDesc(MapNormalizeB(KeptB(parsedGames, user)))

---------------------------------------------------------------------------
(* The two adapters' requests, errors and results *)

SecondsPerHour == 3600

\* The toy calendar: every month has DaysPerMonth days, month 0 starts on day 0
DaysPerMonth == 2

FirstDay(mo) == mo * DaysPerMonth

LastDay(mo) == (mo + 1) * DaysPerMonth - 1

\* new Date(y, m, d).getTime() / 1000: local midnight of day d, in a
\* timezone tzo hours east of UTC
LocalMidnight(d, tzo) == d * SecondsPerDay - tzo * SecondsPerHour

\* chess-com.ts:172-179, for the archive of month mo
ArchiveStartTimestamp(mo, tzo) == LocalMidnight(FirstDay(mo), tzo)

ArchiveEndTimestamp(mo, tzo) == LocalMidnight(LastDay(mo), tzo)

\* chess-com.ts:182-186
Overlaps(mo, tzo, sd, ed) ==
    LET a == ArchiveStartTimestamp(mo, tzo)
        b == ArchiveEndTimestamp(mo, tzo)
        s == StartTimestamp(sd)
        e == EndTimestamp(ed)
    IN  \/ (LeqEnd(a, e) /\ b >= s)
        \/ (a >= s /\ LeqEnd(a, e))
        \/ (b >= s /\ LeqEnd(b, e))

\* arr.reverse()
Reverse(q) == [k \in 1..Len(q) |-> q[Len(q) + 1 - k]]

\* chess-com.ts:169-192
RelevantArchives(archives, tzo, sd, ed) ==
    Reverse(SeqFilter(archives, {mo \in {archives[k] : k \in 1..Len(archives)} :
                                     Overlaps(mo, tzo, sd, ed)}))

\* Thrown values.  isError is `instanceof Error`.
NoGamesFound == [isError |-> TRUE, name |-> "Error", message |-> "No games found"]

\* What fetch() and response.text() reject with when the network fails
FailedToFetch == [isError |-> TRUE, name |-> "TypeError", message |-> "Failed to fetch"]

\* What response.json() rejects with and JSON.parse throws on a malformed text
UnexpectedToken ==
    [isError |-> TRUE, name |-> "SyntaxError", message |-> "Unexpected token"]

\* What reading a property of undefined throws
CannotRead ==
    [isError |-> TRUE, name |-> "TypeError",
     message |-> "Cannot read properties of undefined"]

NoError == [isError |-> FALSE, name |-> "", message |-> ""]

Pending == [state |-> "pending", games |-> <<>>, error |-> NoError]

Fulfilled(filteredGames) ==
    [state |-> "fulfilled", games |-> filteredGames, error |-> NoError]

\* The catch clause of chess-com.ts:276-281 and lichess.ts:188-193
CatchAtBoundary(thrown) == IF thrown.isError THEN thrown ELSE NoGamesFound

Rejected(thrown) ==
    [state |-> "rejected", games |-> <<>>, error |-> CatchAtBoundary(thrown)]

\* Mutant of Settle: the list is returned whatever its length
Settle_ReturnsEmpty(filteredGames) == Fulfilled(filteredGames)

\* chess-com.ts:271-275 and lichess.ts:183-187
Settle(filteredGames) ==
    IF Len(filteredGames) = 0 THEN Rejected(NoGamesFound)
    ELSE Fulfilled(filteredGames)

\* Mutant of AfterArchive: a request that throws leaves the loop
AfterArchive_Rethrows(all, resp) ==
    IF resp.kind = "threw" THEN [allGames |-> all, thrown |-> resp.error]
    ELSE IF resp.kind = "ok" /\ resp.hasGames
         THEN [allGames |-> all \o resp.games, thrown |-> NoError]
         ELSE [allGames |-> all, thrown |-> NoError]

\* The body of the for loop of chess-com.ts:196-212 for one response: what
\* allGames becomes and what escapes the loop's try block
AfterArchive(all, resp) ==
    IF resp.kind = "ok" /\ resp.hasGames
    THEN [allGames |-> all \o resp.games, thrown |-> NoError]
    ELSE [allGames |-> all, thrown |-> NoError]

---------------------------------------------------------------------------
(* Inputs of the clock and move-timing functions *)

MaxPlies == 4

\* "[%clk" ws hours ":" minutes ":" seconds frac "]"
Clk(q) ==
    Lit_clk \o q.ws \o q.h \o <<":">> \o q.m \o <<":">> \o q.s \o q.f \o <<"]">>

ClkParts ==
    [ws : {<<" ">>, <<" ", " ">>},
     h  : {<<"0">>, <<"1">>, <<"1", "0">>},
     m  : {<<"0", "0">>, <<"0", "5">>, <<"5">>, <<"5", "9">>},
     s  : {<<"0", "0">>, <<"0", "5">>, <<"1", "2">>, <<"7">>},
     f  : {<<>>, <<".", "9">>, <<".", "0", "5">>}]

\* Annotations the clock pattern does not match
JunkComments ==
    {<<>>,
     <<"[", "%", "e", "v", "a", "l", " ", "0", ".", "3", "]">>,
     <<"[", "%", "c", "l", "k", "0", ":", "0", "5", ":", "1", "2", "]">>,
     <<"[", "%", "c", "l", "k", " ", "0", ":", "0", "5", "]">>,
     <<"[", "%", "c", "l", "k", " ", "0", ":", "0", "5", ":", "1", "2">>,
     <<"[", "%", "c", "l", "k", " ", "0", ":", "0", "5", ":", "1", "2", ".", "]">>}

\* A clock token after other annotation text
PrefixedComments ==
    {<<"[", "%", "e", "v", "a", "l", " ", "0", ".", "3", "]", " ">> \o Clk(q) :
        q \in {x \in ClkParts : x.ws = <<" ">> /\ x.h = <<"0">>}}

CommentInputs == {Clk(q) : q \in ClkParts} \cup JunkComments \cup PrefixedComments

\* The clock tokens of the plies given to formatPGN
PgnClkParts ==
    {[ws |-> <<" ">>, h |-> <<"0">>, m |-> <<"1", "0">>, s |-> <<"0", "0">>, f |-> <<>>],
     [ws |-> <<" ">>, h |-> <<"0">>, m |-> <<"0", "9">>, s |-> <<"5", "0">>, f |-> <<".", "9">>],
     [ws |-> <<" ">>, h |-> <<"0">>, m |-> <<"0", "9">>, s |-> <<"0", "0">>, f |-> <<>>],
     [ws |-> <<" ">>, h |-> <<"1">>, m |-> <<"0", "0">>, s |-> <<"0", "0">>, f |-> <<>>]}

PgnClkComments == {Clk(q) : q \in PgnClkParts}

PgnJunkComment == <<"[", "%", "e", "v", "a", "l", " ", "0", ".", "3", "]">>

Annotations ==
    {[hasBrace |-> FALSE, comment |-> Null]}
    \cup {[hasBrace |-> TRUE, comment |-> c] : c \in PgnClkComments \cup {PgnJunkComment}}

SanNames == <<"e4", "e5", "Nf3", "Nc6", "Bb5", "a6", "Ba4", "Nf6">>

SanAt(k) == SanNames[((k - 1) % Len(SanNames)) + 1]

\* The k-th ply as chess.com writes it: "n. san" for white, "n... san" for black
Ply(k, a) ==
    [num      |-> ((k - 1) \div 2) + 1,
     dots     |-> IF k % 2 = 1 THEN 1 ELSE 3,
     san      |-> SanAt(k),
     hasBrace |-> a.hasBrace,
     comment  |-> a.comment]

PgnInputs ==
    UNION {{[k \in 1..n |-> Ply(k, as[k])] : as \in [1..n -> Annotations]} :
              n \in 0..MaxPlies}

Centiseconds == {6000, 5950, 6100, 18000}

\* game.clock: absent, 5+0 or 3+2
ClockConfigs ==
    {[hasClock |-> FALSE, clock |-> [initial |-> 0, increment |-> 0]],
     [hasClock |-> TRUE, clock |-> [initial |-> 300, increment |-> 0]],
     [hasClock |-> TRUE, clock |-> [initial |-> 180, increment |-> 2]]}

\* The fields of a raw lichess game that the move loop reads
LichessTimings ==
    UNION {{[movesArray |-> [k \in 1..n |-> SanAt(k)],
             hasClocks  |-> hc,
             clocks     |-> cl,
             hasClock   |-> cc.hasClock,
             clock      |-> cc.clock] :
               hc \in BOOLEAN, cc \in ClockConfigs,
               cl \in UNION {[1..l -> Centiseconds] : l \in 0..n}} :
           n \in 1..MaxPlies}
    \cup {[movesArray |-> <<"">>, hasClocks |-> FALSE, clocks |-> <<>>,
           hasClock |-> FALSE, clock |-> [initial |-> 0, increment |-> 0]]}

\* The base times and the increments of the time controls given to
\* parseTimeControl
BaseTimes ==
    {<<>>, <<"0">>, <<"3", "0">>, <<"5", "9">>, <<"6", "0">>, <<"6", "5">>, <<"9", "0">>,
     <<"1", "8", "0">>, <<"6", "0", "0">>, <<"3", "6", "6", "1">>, <<"0", "9", "0">>}

Increments ==
    {<<>>, <<"+">>, <<"+", "0">>, <<"+", "2">>, <<"+", "1", "0">>, <<"+", "x">>,
     <<"+", "2", "+", "5">>}

\* A day code the function does not list, and texts whose base is not a number
OtherTimeControls ==
    {<<"1", "/", "1", "7", "2", "8", "0", "0">>, <<"-">>, <<"a", "b", "c">>,
     <<"x", "+", "5">>, <<"1", "0", "m", "i", "n">>}

TimeControlInputs ==
    {d.code : d \in DayCodes}
    \cup ({b \o inc : b \in BaseTimes, inc \in Increments} \ {Null})
    \cup OtherTimeControls

IdleLichessGame ==
    [movesArray |-> <<>>, hasClocks |-> FALSE, clocks |-> <<>>,
     hasClock |-> FALSE, clock |-> [initial |-> 0, increment |-> 0]]

---------------------------------------------------------------------------
(* The clock and move-timing functions as state machines *)

ClkIdle == comment = Null /\ parsed = Null /\ clkDone = TRUE

TcIdle == time_control = Null /\ timeStr = Null /\ tcDone = TRUE

\* The component is not mounted
\* No row has been clicked
NotOpened == [site |-> "", gameId |-> "", moveNumber |-> 0, from |-> ""]

UiIdle ==
    /\ isLoading = FALSE
    /\ games = <<>>
    /\ error = ""
    /\ minTimeFilter = 20
    /\ inFlight = <<>>
    /\ gamesFrom = ""
    /\ opened = NotOpened

PgnIdle ==
    /\ pgn = <<>>
    /\ pos = 1
    /\ formattedMoves = FormatPGNStart.formattedMoves
    /\ clocks = FormatPGNStart.clocks
    /\ clockSrc = FormatPGNStart.clockSrc
    /\ currentMoveNumber = FormatPGNStart.currentMoveNumber
    /\ isWhiteMove = FormatPGNStart.isWhiteMove
    /\ previousWhiteTime = FormatPGNStart.previousWhiteTime
    /\ previousBlackTime = FormatPGNStart.previousBlackTime

LiIdle ==
    /\ liGame = IdleLichessGame
    /\ i = 0
    /\ moves = <<>>
    /\ previousWhiteClock = Null
    /\ previousBlackClock = Null

\* No adapter call is running
FetchIdle ==
    /\ tz = 0
    /\ pc = "idle"
    /\ relevantArchives = <<>>
    /\ archiveIdx = 1
    /\ allGames = <<>>
    /\ outcome = Pending
    /\ fetchLog = <<>>

\* No query is made and no raw game is being normalized
GameIdle ==
    /\ platform = "chess.com"
    /\ username = Null
    /\ gameType = "all"
    /\ startDate = NoDate
    /\ endDate = NoDate
    /\ rawGame = Null
    /\ querySide = "white"
    /\ normalized = <<>>
    /\ gameDone = TRUE
    /\ FetchIdle

\* parseClockComment is called with a brace annotation's text
InitClk ==
    /\ comment \in CommentInputs
    /\ parsed = Null
    /\ clkDone = FALSE
    /\ PgnIdle /\ LiIdle /\ GameIdle /\ TcIdle /\ UiIdle

\* formatPGN is called: chess-com.ts:57-64
InitPgn ==
    /\ pgn \in PgnInputs
    /\ pos = 1
    /\ formattedMoves = FormatPGNStart.formattedMoves
    /\ clocks = FormatPGNStart.clocks
    /\ clockSrc = FormatPGNStart.clockSrc
    /\ currentMoveNumber = FormatPGNStart.currentMoveNumber
    /\ isWhiteMove = FormatPGNStart.isWhiteMove
    /\ previousWhiteTime = FormatPGNStart.previousWhiteTime
    /\ previousBlackTime = FormatPGNStart.previousBlackTime
    /\ ClkIdle /\ LiIdle /\ GameIdle /\ TcIdle /\ UiIdle

\* the map callback of fetchLichessGames is entered: lichess.ts:129-133
InitLi ==
    /\ liGame \in LichessTimings
    /\ i = 0
    /\ moves = <<>>
    /\ previousWhiteClock = Null
    /\ previousBlackClock = Null
    /\ ClkIdle /\ PgnIdle /\ GameIdle /\ TcIdle /\ UiIdle

\* parseTimeControl is called with a game's time_control
InitTc ==
    /\ time_control \in TimeControlInputs
    /\ timeStr = Null
    /\ tcDone = FALSE
    /\ ClkIdle /\ PgnIdle /\ LiIdle /\ GameIdle /\ UiIdle

InitTiming == InitClk \/ InitPgn \/ InitLi \/ InitTc

\* chess-com.ts:116-145
ParseTimeControl ==
    /\ ~tcDone
    /\ timeStr' = parseTimeControl(time_control)
    /\ tcDone' = TRUE
    /\ UNCHANGED <<time_control, pcVars, pgnVars, liVars, queryVars, gameVars,
                   fetchVars, uiVars>>

\* chess-com.ts:30-37
ParseClock ==
    /\ ~clkDone
    /\ parsed' = parseClockComment(comment)
    /\ clkDone' = TRUE
    /\ UNCHANGED <<comment, pgnVars, liVars, queryVars, gameVars, fetchVars, tcVars, uiVars>>

Frame ==
    [formattedMoves    |-> formattedMoves,
     clocks            |-> clocks,
     clockSrc          |-> clockSrc,
     currentMoveNumber |-> currentMoveNumber,
     isWhiteMove       |-> isWhiteMove,
     previousWhiteTime |-> previousWhiteTime,
     previousBlackTime |-> previousBlackTime]

\* The local variables of formatPGN become those of f
FrameBecomes(f) ==
    /\ formattedMoves' = f.formattedMoves
    /\ clocks' = f.clocks
    /\ clockSrc' = f.clockSrc
    /\ currentMoveNumber' = f.currentMoveNumber
    /\ isWhiteMove' = f.isWhiteMove
    /\ previousWhiteTime' = f.previousWhiteTime
    /\ previousBlackTime' = f.previousBlackTime

\* One iteration of the while loop of formatPGN: chess-com.ts:66-108
PgnStep ==
    /\ pos <= Len(pgn)
    /\ FrameBecomes(FormatPGNIter(Frame, pgn[pos], pos))
    /\ pos' = pos + 1
    /\ UNCHANGED <<pgn, pcVars, liVars, queryVars, gameVars, fetchVars, tcVars, uiVars>>

\* One iteration of the for loop of lichess.ts:135-164
LiStep ==
    /\ i < Len(liGame.movesArray)
    /\ IF liGame.movesArray[i + 1] # ""
       THEN LET m == MoveObj(liGame, i, previousWhiteClock, previousBlackClock)
            IN  /\ moves' = Append(moves, m)
                /\ previousWhiteClock' = IF m.white THEN m.clockWhite
                                         ELSE previousWhiteClock
                /\ previousBlackClock' = IF m.white THEN previousBlackClock
                                         ELSE m.clockBlack
       ELSE UNCHANGED <<moves, previousWhiteClock, previousBlackClock>>
    /\ i' = i + 1
    /\ UNCHANGED <<liGame, pcVars, pgnVars, queryVars, gameVars, fetchVars, tcVars, uiVars>>

NextTiming == ParseClock \/ PgnStep \/ LiStep \/ ParseTimeControl

SpecTiming == InitTiming /\ [][NextTiming]_vars

---------------------------------------------------------------------------
(* Properties of the clock and move-timing functions (SpecTiming) *)

\* A decimal string without its zero padding: "05" is "5", "00" is "0"
RECURSIVE StripZeros(_)
StripZeros(s) ==
    IF Len(s) > 1 /\ s[1] = "0" THEN StripZeros(Tail(s)) ELSE s

\* service A's timeSpent strings: "10"
DenotesPositive(ts) == AllDigits(ts) /\ Number(ts) > 0

\* service B's timeSpent strings: "10s"
DenotesPositiveSeconds(ts) ==
    /\ Len(ts) >= 2
    /\ ts[Len(ts)] = "s"
    /\ DenotesPositive(SubSeq(ts, 1, Len(ts) - 1))

\* C1: in every timing record either adapter has produced, timeSpent is
\* absent or is the text of a strictly positive number of seconds.
C1_TimeSpentPositive ==
    /\ \A k \in 1..Len(clocks) :
           clocks[k].timeSpent = Null \/ DenotesPositive(clocks[k].timeSpent)
    /\ \A k \in 1..Len(moves) :
           /\ moves[k].timeSpentWhite = Null
                  \/ DenotesPositiveSeconds(moves[k].timeSpentWhite)
           /\ moves[k].timeSpentBlack = Null
                  \/ DenotesPositiveSeconds(moves[k].timeSpentBlack)

\* Service B has finished a game in which white spent time (1:01 to 1:00)
\* and black's clock did not move (1:00 to 1:00, no increment): the first
\* is emitted as "1s", the zero difference is not emitted.
C1_Witness ==
    /\ i = Len(liGame.movesArray)
    /\ Increment(liGame) = 0
    /\ Len(moves) = 4
    /\ moves[1].clockWhite = <<"1", ":", "0", "1">>
    /\ moves[3].clockWhite = <<"1", ":", "0", "0">>
    /\ moves[3].timeSpentWhite = <<"1", "s">>
    /\ moves[2].clockBlack = <<"1", ":", "0", "0">>
    /\ moves[4].clockBlack = <<"1", ":", "0", "0">>
    /\ moves[4].timeSpentBlack = Null

HasClock(t) == t.hasBrace /\ t.comment \in PgnClkComments

\* C8: when formatPGN has consumed n plies that all carry a clock, clocks
\* has n entries and entry k (0-based) has moveNumber floor(k/2)+1 and
\* isWhite = (k even).
C8_FullMoveNumbering ==
    (\A k \in 1..(pos - 1) : HasClock(pgn[k]))
        => /\ Len(clocks) = pos - 1
           /\ \A k \in 0..(Len(clocks) - 1) :
                  /\ clocks[k + 1].moveNumber = (k \div 2) + 1
                  /\ clocks[k + 1].isWhite = (k % 2 = 0)

\* formatPGN has returned for 4 plies with clocks on all four:
\* moveNumber [1,1,2,2], isWhite [true,false,true,false].
C8_Witness ==
    /\ Len(pgn) = 4
    /\ pos > Len(pgn)
    /\ \A k \in 1..Len(pgn) : HasClock(pgn[k])
    /\ [k \in 1..4 |-> clocks[k].moveNumber] = <<1, 1, 2, 2>>
    /\ [k \in 1..4 |-> clocks[k].isWhite] = <<TRUE, FALSE, TRUE, FALSE>>

\* C9 as stated: a clock token H:MM:SS[.frac] parses to H:M:S with the
\* fraction dropped and the zero padding of minutes and seconds removed
\* ("0:05:12.9" gives "0:5:12").
C9_Stated ==
    clkDone =>
        \A q \in ClkParts :
            comment = Clk(q) =>
                parsed = q.h \o <<":">> \o StripZeros(q.m) \o <<":">> \o StripZeros(q.s)

\* C9 as amended: a clock token H:MM:SS[.frac] parses to the hours and the
\* minutes as written, then the whole seconds without zero padding, the
\* fraction dropped and never rounded ("0:05:12.9" gives "0:05:12").
C9_ClockString ==
    clkDone =>
        \A q \in ClkParts :
            comment = Clk(q) =>
                parsed = q.h \o <<":">> \o q.m \o <<":">> \o StripZeros(q.s)

\* parseClockComment has returned "0:05:12" for "[%clk 0:05:12.9]".
C9_Witness ==
    /\ clkDone
    /\ comment = <<"[", "%", "c", "l", "k", " ", "0", ":", "0", "5", ":",
                   "1", "2", ".", "9", "]">>
    /\ parsed = <<"0", ":", "0", "5", ":", "1", "2">>

\* The clocks entries before entry k that have entry k's color
EarlierSameColor(k) == {j \in 1..(k - 1) : clocks[j].isWhite = clocks[k].isWhite}

Max(S) == CHOOSE x \in S : \A y \in S : y <= x

Clk_0_10_00 == <<"[", "%", "c", "l", "k", " ", "0", ":", "1", "0", ":", "0", "0", "]">>

Clk_0_09_50 ==
    <<"[", "%", "c", "l", "k", " ", "0", ":", "0", "9", ":", "5", "0", ".", "9", "]">>

Clk_1_00_00 == <<"[", "%", "c", "l", "k", " ", "1", ":", "0", "0", ":", "0", "0", "]">>

\* C10: a clocks entry's timeSpent is the total seconds of the most recent
\* earlier entry of its own color minus its own total seconds when that is
\* positive, and is absent otherwise or when there is no such entry
\* (previous 0:10:00, current 0:09:50: 10).
C10_PerColorTimeSpent ==
    \A k \in 1..Len(clocks) :
        IF EarlierSameColor(k) = {}
        THEN clocks[k].timeSpent = Null
        ELSE LET j    == Max(EarlierSameColor(k))
                 diff == TotalSeconds(clocks[j].time) - TotalSeconds(clocks[k].time)
             IN  /\ diff > 0  => /\ AllDigits(clocks[k].timeSpent)
                                 /\ Number(clocks[k].timeSpent) = diff
                 /\ diff <= 0 => clocks[k].timeSpent = Null
                 /\ (pgn[clockSrc[j]].comment = Clk_0_10_00
                       /\ pgn[clockSrc[k]].comment = Clk_0_09_50)
                        => clocks[k].timeSpent = <<"1", "0">>

\* White 0:10:00, black 1:00:00, white 0:09:50: the third entry's timeSpent
\* is 10, taken against white's previous clock and not black's.
C10_Witness ==
    /\ Len(clocks) >= 3
    /\ clockSrc[1] = 1 /\ clockSrc[2] = 2 /\ clockSrc[3] = 3
    /\ clocks[1].isWhite /\ ~clocks[2].isWhite /\ clocks[3].isWhite
    /\ pgn[1].comment = Clk_0_10_00
    /\ pgn[2].comment = Clk_1_00_00
    /\ pgn[3].comment = Clk_0_09_50
    /\ clocks[3].timeSpent = <<"1", "0">>

\* C13 as stated: along clocks moveNumber never decreases, and two
\* consecutive entries differ in moveNumber only when the earlier one is a
\* black ply.
C13_Stated ==
    \A k \in 1..(Len(clocks) - 1) :
        /\ clocks[k + 1].moveNumber >= clocks[k].moveNumber
        /\ clocks[k + 1].moveNumber # clocks[k].moveNumber => ~clocks[k].isWhite

\* The plies of pgn strictly between the plies of the entries k and k + 1
PliesBetween(k) == (clockSrc[k] + 1)..(clockSrc[k + 1] - 1)

\* C13: along clocks moveNumber never decreases, and two consecutive entries
\* differ in moveNumber only when the earlier one is a black ply or a ply
\* without a brace annotation lies between their two plies (the counter
\* advances after every black ply that is processed, recorded or not).
C13_MoveNumberMonotone ==
    \A k \in 1..(Len(clocks) - 1) :
        /\ clocks[k + 1].moveNumber >= clocks[k].moveNumber
        /\ clocks[k + 1].moveNumber # clocks[k].moveNumber =>
               \/ ~clocks[k].isWhite
               \/ \E j \in PliesBetween(k) : ~pgn[j].hasBrace

\* White's first ply has a clock, black's reply has no annotation, white's
\* second ply has a clock: the two entries are white plies numbered 1 and 2.
C13_Witness ==
    /\ pos = 4
    /\ ~pgn[2].hasBrace
    /\ Len(clocks) = 2
    /\ clockSrc = <<1, 3>>
    /\ clocks[1].isWhite /\ clocks[1].moveNumber = 1
    /\ clocks[2].isWhite /\ clocks[2].moveNumber = 2

\* C14 as stated: the color tracker of formatPGN flips after every ply the
\* tokenizer matches, whether or not the ply carried a parsable clock: after
\* n plies it is white's turn iff n is even.
C14_Stated == isWhiteMove <=> ((pos - 1) % 2 = 0)

\* C15 as stated: every matched ply, with a clock or not, is in the
\* flattened text in order, so the text has as many moves as plies were
\* matched; and a ply without a parsable clock has no clocks entry.
C15_Stated ==
    /\ Len(formattedMoves) = pos - 1
    /\ \A k \in 1..Len(formattedMoves) : formattedMoves[k] = CleanMove(pgn[k])
    /\ \A k \in 1..Len(clockSrc) : HasClock(pgn[clockSrc[k]])

\* C18 as stated: every clocks entry is labelled as its own ply token is:
\* isWhite iff the prefix has a single dot, moveNumber the prefix's number.
C18_Stated ==
    \A k \in 1..Len(clocks) :
        /\ clocks[k].isWhite <=> pgn[clockSrc[k]].dots = 1
        /\ clocks[k].moveNumber = pgn[clockSrc[k]].num

\* n as two decimal digits, for 0 <= n < 100
TwoDigits(n) == <<DigitChars[(n \div 10) + 1], DigitChars[(n % 10) + 1]>>

\* Whether the raw game has a clock for the ply at 1-based position k
ClockGiven(k) == liGame.hasClocks /\ k >= 1 /\ k <= Len(liGame.clocks)

\* The whole seconds of the raw clock of the ply at position k
ClockSeconds(k) == liGame.clocks[k] \div 100

\* The increment of the raw game, 0 when it has no clock settings
RawIncrement == IF liGame.hasClock THEN liGame.clock.increment ELSE 0

\* previous same-color clock - current clock + increment, for the ply at k
SpentAt(k) == ClockSeconds(k - 2) - ClockSeconds(k) + RawIncrement

\* The clock and the timeSpent a record carries for its own color
OwnClock(m) == IF m.white THEN m.clockWhite ELSE m.clockBlack

OwnTimeSpent(m) == IF m.white THEN m.timeSpentWhite ELSE m.timeSpentBlack

\* C12: in service B's move loop the record of the ply at 0-based index i
\* has moveNumber floor(i/2)+1, is white iff i is even, carries the clock at
\* index i when the clock array has one, and has timeSpent = previous
\* same-color clock seconds - current clock seconds + increment when both
\* clocks exist and the value is > 0, and none otherwise; nothing of one
\* color is written into the other color's fields.
C12_LichessMoveRecords ==
    (\A j \in 1..Len(liGame.movesArray) : liGame.movesArray[j] # "") =>
        \A k \in 1..Len(moves) :
            /\ moves[k].move = liGame.movesArray[k]
            /\ moves[k].moveNumber = ((k - 1) \div 2) + 1
            /\ moves[k].white <=> (k - 1) % 2 = 0
            /\ moves[k].white => (moves[k].clockBlack = Null
                                      /\ moves[k].timeSpentBlack = Null)
            /\ ~moves[k].white => (moves[k].clockWhite = Null
                                       /\ moves[k].timeSpentWhite = Null)
            /\ OwnClock(moves[k]) =
                   (IF ClockGiven(k)
                    THEN toString(ClockSeconds(k) \div 60) \o <<":">>
                             \o TwoDigits(ClockSeconds(k) % 60)
                    ELSE Null)
            /\ OwnTimeSpent(moves[k]) =
                   (IF ClockGiven(k) /\ ClockGiven(k - 2) /\ SpentAt(k) > 0
                    THEN toString(SpentAt(k)) \o <<"s">>
                    ELSE Null)

\* A finished 3+2 game of four plies: white went from 1:01 to 1:00 and is
\* charged 3s; black went from 1:00 to 1:01 and is charged 1s.
C12_Witness ==
    /\ i = Len(liGame.movesArray)
    /\ Len(moves) = 4
    /\ liGame.hasClocks
    /\ liGame.clocks = <<6100, 6000, 6000, 6100>>
    /\ RawIncrement = 2
    /\ moves[3].timeSpentWhite = <<"3", "s">>
    /\ moves[4].timeSpentBlack = <<"1", "s">>

\* Whether a part of a time control denotes a number: a string of decimal
\* digits, or the empty string, which denotes 0
DenotesNumber(part) == part = <<>> \/ AllDigits(part)

SecondsDenoted(part) == IF part = <<>> THEN 0 ELSE Number(part)

\* base seconds as the text shown: whole minutes, with ":SS" only when the
\* remainder is not zero; below a minute, the seconds and "s"
MinutesText(base) ==
    IF base >= 60
    THEN toString(base \div 60)
             \o (IF base % 60 # 0 THEN <<":">> \o TwoDigits(base % 60) ELSE <<>>)
    ELSE toString(base) \o <<"s">>

\* The increment a time control's parts denote: 0 when absent or unparsable
IncrementDenoted(parts) ==
    IF Len(parts) >= 2 /\ DenotesNumber(parts[2]) THEN SecondsDenoted(parts[2]) ELSE 0

\* C11: parseTimeControl maps the five day codes to their day texts; any
\* other text base[+increment] whose base is a number to the whole minutes
\* (with ":SS", two digits, only when base mod 60 is not zero) or, below 60,
\* to "<base>s", followed by "+<increment>" with increment 0 when absent or
\* unparsable; and a text whose base is not a number to "-".
C11_TimeControlText ==
    (tcDone /\ time_control # Null) =>
        IF \E d \in DayCodes : d.code = time_control
        THEN \E d \in DayCodes : d.code = time_control /\ timeStr = d.text
        ELSE IF DenotesNumber(SplitPlus(time_control)[1])
             THEN timeStr = MinutesText(SecondsDenoted(SplitPlus(time_control)[1]))
                                \o <<"+">>
                                \o toString(IncrementDenoted(SplitPlus(time_control)))
             ELSE timeStr = <<"-">>

\* "3661+2" has been formatted as "61:01+2"
C11_Witness ==
    /\ tcDone
    /\ time_control = <<"3", "6", "6", "1", "+", "2">>
    /\ timeStr = <<"6", "1", ":", "0", "1", "+", "2">>

---------------------------------------------------------------------------
(* One raw game through an adapter's filters and map callback (SpecGame) *)

Ann == <<"A", "n", "n">>

Bob == <<"b", "o", "b">>

SuperBot2000 == <<"S", "u", "p", "e", "r", "B", "o", "t", "2", "0", "0", "0">>

Computer4 == <<"C", "o", "m", "p", "u", "t", "e", "r", "4">>

Stockfish9 == <<"S", "t", "o", "c", "k", "f", "i", "s", "h", "9">>

EngineX == <<"E", "n", "g", "i", "n", "e", "X">>

Humans == {Ann, Bob}

\* The spellings under which a player's name may be typed into the form
Spellings(name) ==
    IF name = Ann THEN {Ann, <<"a", "n", "n">>, <<"A", "N", "N">>}
    ELSE IF name = Bob THEN {Bob, <<"B", "O", "B">>}
    ELSE {name}

OtherFen == "rnbqkbnr/pppppppp/8/8/8/8/PPPPPPPP/RNBQKB1R w KQkq - 0 1"

\* A two-ply move list with a clock on each ply
SamplePgn ==
    <<Ply(1, [hasBrace |-> TRUE, comment |-> Clk_0_10_00]),
      Ply(2, [hasBrace |-> TRUE, comment |-> Clk_0_09_50])>>

\* The per-side result fields of a finished game: at most one side has "win"
SideResults ==
    {[white |-> "win", black |-> "resigned"],
     [white |-> "checkmated", black |-> "win"],
     [white |-> "agreed", black |-> "agreed"]}

SideRatings == {[white |-> 1500, black |-> 1600], [white |-> 1700, black |-> 1400]}

ChessComGames ==
    {[url            |-> "https://www.chess.com/game/live/1",
      pgn            |-> SamplePgn,
      end_time       |-> et,
      time_control   |-> <<"6", "0", "0">>,
      time_class     |-> tc,
      rated          |-> TRUE,
      rules          |-> ru,
      white          |-> [username |-> w, rating |-> rr.white, result |-> sr.white],
      black          |-> [username |-> b, rating |-> rr.black, result |-> sr.black],
      initial_setup  |-> su] :
        et \in {0, SecondsPerDay + 3600, 3 * SecondsPerDay + 3600},
        tc \in {"blitz", "rapid", "bullet"},
        ru \in {"", "chess", "chess960"},
        su \in {"", StandardFen, OtherFen},
        w \in {Ann, Bob, Computer4}, b \in {Ann, Bob, SuperBot2000},
        rr \in SideRatings, sr \in SideResults}

LichessGames ==
    {[id         |-> "q7ZvsdUF",
      createdAt  |-> 1000 * (SecondsPerDay + 3600),
      movesArray |-> <<SanAt(1), SanAt(2), SanAt(3)>>,
      hasClocks  |-> TRUE,
      clocks     |-> <<18000, 18000, 17000>>,
      hasClock   |-> TRUE,
      clock      |-> [initial |-> 180, increment |-> 2],
      players    |-> [white |-> [user |-> [name |-> w], rating |-> rr.white,
                                 aiLevel |-> ai.white],
                      black |-> [user |-> [name |-> b], rating |-> rr.black,
                                 aiLevel |-> ai.black]],
      winner     |-> wi,
      speed      |-> sp,
      rated      |-> TRUE,
      initialFen |-> fen] :
        w \in {Ann, Bob, EngineX}, b \in {Ann, Bob, Stockfish9, SuperBot2000},
        rr \in SideRatings,
        ai \in {[white |-> 0, black |-> 0], [white |-> 3, black |-> 0],
                [white |-> 0, black |-> 3]},
        wi \in {"", "white", "black"},
        sp \in {"blitz", "rapid"},
        fen \in {"", StandardFen, OtherFen}}

\* The date windows of a query, as pairs of day numbers
QueryWindows ==
    {[startDate |-> NoDate, endDate |-> NoDate],
     [startDate |-> [given |-> TRUE, day |-> 2], endDate |-> NoDate],
     [startDate |-> NoDate, endDate |-> [given |-> TRUE, day |-> 2]]}

\* The name on one side of a raw game of either service
SideName(game, side) ==
    IF platform = "chess.com" THEN game[side].username
    ELSE game.players[side].user.name

\* The rating on one side of a raw game of either service
SideRating(game, side) ==
    IF platform = "chess.com" THEN game[side].rating
    ELSE game.players[side].rating

TimingIdle == ClkIdle /\ PgnIdle /\ LiIdle /\ TcIdle

\* A player queries one of the two services for their own games, typing
\* their name in any spelling, and the service holds one game
InitGame ==
    /\ platform \in {"chess.com", "lichess.org"}
    /\ rawGame \in (IF platform = "chess.com" THEN ChessComGames ELSE LichessGames)
    /\ SideName(rawGame, "white") # SideName(rawGame, "black")
    /\ querySide \in {"white", "black"}
    /\ SideName(rawGame, querySide) \in Humans
    /\ username \in Spellings(SideName(rawGame, querySide))
    /\ gameType \in {"all", "blitz"}
    /\ \E w \in QueryWindows : startDate = w.startDate /\ endDate = w.endDate
    /\ normalized = <<>>
    /\ gameDone = FALSE
    /\ TimingIdle
    /\ FetchIdle
    /\ UiIdle

\* chess-com.ts:215-269 on the one game
NormalizeChessCom ==
    /\ ~gameDone
    /\ platform = "chess.com"
    /\ normalized' = FilteredGamesA(<<rawGame>>, username, startDate, endDate, gameType)
    /\ gameDone' = TRUE
    /\ UNCHANGED <<rawGame, querySide, queryVars, pcVars, pgnVars, liVars, fetchVars, tcVars, uiVars>>

\* lichess.ts:107-181 on the one game
NormalizeLichess ==
    /\ ~gameDone
    /\ platform = "lichess.org"
    /\ normalized' = FilteredGamesB(<<rawGame>>, username)
    /\ gameDone' = TRUE
    /\ UNCHANGED <<rawGame, querySide, queryVars, pcVars, pgnVars, liVars, fetchVars, tcVars, uiVars>>

NextGame == NormalizeChessCom \/ NormalizeLichess

SpecGame == InitGame /\ [][NextGame]_vars

---------------------------------------------------------------------------
(* Properties of the normalized game (SpecGame) *)

OtherSide(side) == IF side = "white" THEN "black" ELSE "white"

\* C2 as stated: a game service B returns has result win iff the queried
\* user is the side named by winner, loss iff the other side is, draw iff
\* there is no winner.
C2_Stated ==
    (platform = "lichess.org" /\ gameDone /\ normalized # <<>>) =>
        /\ normalized[1].result = "win"  <=> rawGame.winner = querySide
        /\ normalized[1].result = "loss" <=> rawGame.winner = OtherSide(querySide)
        /\ normalized[1].result = "draw" <=> rawGame.winner = ""

\* C3: a game service A returns has result win when the queried user's side
\* has the result field "win", loss when the other side has it, draw when
\* neither has, whatever the case in which the user's name was typed.
C3_ResultRelativeToUser ==
    (platform = "chess.com" /\ gameDone /\ normalized # <<>>) =>
        LET mine   == rawGame[querySide].result
            theirs == rawGame[OtherSide(querySide)].result
        IN  /\ mine = "win" => normalized[1].result = "win"
            /\ theirs = "win" => normalized[1].result = "loss"
            /\ (mine # "win" /\ theirs # "win") => normalized[1].result = "draw"

\* White's result field is "win" and the query names the black player in
\* another spelling than the game's: the returned result is loss.
C3_Witness ==
    /\ platform = "chess.com" /\ gameDone /\ normalized # <<>>
    /\ rawGame.white.result = "win"
    /\ querySide = "black"
    /\ username # rawGame.black.username
    /\ normalized[1].result = "loss"

\* C4 as stated: in a game either adapter returns, rating is the rating of
\* the side whose name is the queried username.
C4_Stated ==
    (gameDone /\ normalized # <<>>) =>
        normalized[1].rating = SideRating(rawGame, querySide)

---------------------------------------------------------------------------
(* One call of an adapter (SpecFetch) *)

MaxArchives == 2

MaxGames == 1

MaxLines == 2

TzOffsets == {-1, 0, 1}

\* A one-ply move list with a clock
ShortPgn == <<Ply(1, [hasBrace |-> TRUE, comment |-> Clk_0_10_00])>>

\* A blitz game of service A between white and black that white won
ArchiveGame(n, et, w, b, ru) ==
    [url            |-> <<"https://www.chess.com/game/live/", n>>,
     pgn            |-> ShortPgn,
     end_time       |-> et,
     time_control   |-> <<"1", "8", "0", "+", "2">>,
     time_class     |-> "blitz",
     rated          |-> TRUE,
     rules          |-> ru,
     white          |-> [username |-> w, rating |-> 1500, result |-> "win"],
     black          |-> [username |-> b, rating |-> 1600, result |-> "resigned"],
     initial_setup  |-> ""]

\* The games the service holds in the archive of month mo: two standard
\* games between Ann and Bob, on the first and on the last day of the month
\* (UTC), a game against a bot and a Chess960 game
GamesOfMonth(mo) ==
    {ArchiveGame(4 * mo + 1, FirstDay(mo) * SecondsPerDay + SecondsPerHour,
                 Ann, Bob, "chess"),
     ArchiveGame(4 * mo + 2, LastDay(mo) * SecondsPerDay + 12 * SecondsPerHour,
                 Bob, Ann, "chess"),
     ArchiveGame(4 * mo + 3, FirstDay(mo) * SecondsPerDay + 2 * SecondsPerHour,
                 Ann, SuperBot2000, "chess"),
     ArchiveGame(4 * mo + 4, FirstDay(mo) * SecondsPerDay + 3 * SecondsPerHour,
                 Ann, Bob, "chess960")}

SeqsUpTo(S, n) == UNION {[1..k -> S] : k \in 0..n}

\* The responses to the request for the archive of month mo
ArchiveResponses(mo) ==
    {[kind |-> "notOk", hasGames |-> FALSE, games |-> <<>>, error |-> NoError],
     [kind |-> "threw", hasGames |-> FALSE, games |-> <<>>, error |-> FailedToFetch],
     [kind |-> "threw", hasGames |-> FALSE, games |-> <<>>, error |-> UnexpectedToken],
     [kind |-> "ok", hasGames |-> FALSE, games |-> <<>>, error |-> NoError]}
    \cup {[kind |-> "ok", hasGames |-> TRUE, games |-> gs, error |-> NoError] :
             gs \in SeqsUpTo(GamesOfMonth(mo), MaxGames)}

\* A raw game of service B
StreamedGame(n, w, b) ==
    [id         |-> <<"game", n>>,
     createdAt  |-> 1000 * (n * SecondsPerDay + SecondsPerHour),
     movesArray |-> <<SanAt(1), SanAt(2)>>,
     hasClocks  |-> TRUE,
     clocks     |-> <<18000, 17500>>,
     hasClock   |-> TRUE,
     clock      |-> [initial |-> 180, increment |-> 2],
     players    |-> [white |-> [user |-> [name |-> w], rating |-> 1500, aiLevel |-> 0],
                     black |-> [user |-> [name |-> b], rating |-> 1600, aiLevel |-> 0]],
     winner     |-> "white",
     speed      |-> "blitz",
     rated      |-> TRUE,
     initialFen |-> ""]

NotAGame == [id |-> <<"game", 0>>]

\* The lines of an NDJSON body: a game, a text JSON.parse rejects, or a JSON
\* value that is not a game object
BodyLines ==
    {[kind |-> "game", game |-> g] :
        g \in {StreamedGame(1, Ann, Bob), StreamedGame(2, Bob, Ann),
               StreamedGame(3, Ann, Stockfish9)}}
    \cup {[kind |-> "malformed", game |-> NotAGame],
          [kind |-> "notAGame", game |-> NotAGame]}

Days == 0..(MaxArchives * DaysPerMonth)

\* The date inputs of the form: both cleared, or a window of at most a month
FetchWindows ==
    {[startDate |-> NoDate, endDate |-> NoDate]}
    \cup {[startDate |-> [given |-> TRUE, day |-> w[1]],
           endDate   |-> [given |-> TRUE, day |-> w[2]]] :
             w \in {x \in Days \X Days : x[1] <= x[2] /\ x[2] <= x[1] + DaysPerMonth}}

\* fetchGames calls the adapter of the selected platform:
\* ChessNapTracker.tsx:101-103.  Service B does not read the timezone.
InitFetch ==
    /\ platform \in {"chess.com", "lichess.org"}
    /\ username = <<"a", "n", "n">>
    /\ gameType \in {"all", "rapid"}
    /\ \E w \in FetchWindows : startDate = w.startDate /\ endDate = w.endDate
    /\ tz \in (IF platform = "chess.com" THEN TzOffsets ELSE {0})
    /\ pc = (IF platform = "chess.com" THEN "index" ELSE "body")
    /\ relevantArchives = <<>>
    /\ archiveIdx = 1
    /\ allGames = <<>>
    /\ outcome = Pending
    /\ fetchLog = <<>>
    /\ TimingIdle
    /\ UiIdle
    /\ rawGame = Null /\ querySide = "white" /\ normalized = <<>> /\ gameDone = TRUE

\* chess-com.ts:215-275 and the catch clause
SettleA(all) ==
    Settle(FilteredGamesA(all, username, startDate, endDate, gameType))

Finish(o) ==
    /\ outcome' = o
    /\ pc' = "done"

\* chess-com.ts:158 and 163: the request for the archive index fails, or
\* its body is not JSON
IndexThrows ==
    /\ pc = "index"
    /\ \E e \in {FailedToFetch, UnexpectedToken} :
           /\ Finish(Rejected(e))
           /\ fetchLog' = Append(fetchLog, [what |-> "index", ok |-> FALSE,
                                            archive |-> 0, games |-> <<>>])
    /\ UNCHANGED <<tz, relevantArchives, archiveIdx, allGames>>
    /\ UNCHANGED <<pcVars, pgnVars, liVars, queryVars, gameVars, tcVars, uiVars>>

\* chess-com.ts:159-166: a non-success status, or a body without an archives array
IndexNotFound ==
    /\ pc = "index"
    /\ Finish(Rejected(NoGamesFound))
    /\ fetchLog' = Append(fetchLog, [what |-> "index", ok |-> FALSE,
                                     archive |-> 0, games |-> <<>>])
    /\ UNCHANGED <<tz, relevantArchives, archiveIdx, allGames>>
    /\ UNCHANGED <<pcVars, pgnVars, liVars, queryVars, gameVars, tcVars, uiVars>>

\* chess-com.ts:163-192: the index lists the archives of the first n months.
\* With no relevant archive the loop is skipped and the call ends at once.
IndexOk ==
    /\ pc = "index"
    /\ \E n \in 0..MaxArchives :
           LET listed == [k \in 1..n |-> k - 1]
               rel == RelevantArchives(listed, tz, startDate, endDate)
           IN  /\ relevantArchives' = rel
               /\ IF rel = <<>>
                  THEN Finish(SettleA(<<>>))
                  ELSE pc' = "archives" /\ outcome' = outcome
               /\ fetchLog' = Append(fetchLog, [what |-> "index", ok |-> TRUE,
                                                archive |-> 0, games |-> listed])
    /\ UNCHANGED <<tz, archiveIdx, allGames>>
    /\ UNCHANGED <<pcVars, pgnVars, liVars, queryVars, gameVars, tcVars, uiVars>>

\* One iteration of the for loop of chess-com.ts:196-212, and after the last
\* one the rest of the function
ArchiveFetched ==
    /\ pc = "archives"
    /\ \E resp \in ArchiveResponses(relevantArchives[archiveIdx]) :
           LET r == AfterArchive(allGames, resp)
           IN  /\ allGames' = r.allGames
               /\ fetchLog' = Append(fetchLog,
                                  [what    |-> "archive",
                                   ok      |-> resp.kind = "ok",
                                   archive |-> relevantArchives[archiveIdx],
                                   games   |-> resp.games])
               /\ IF r.thrown.isError
                  THEN Finish(Rejected(r.thrown))
                  ELSE IF archiveIdx = Len(relevantArchives)
                       THEN Finish(SettleA(r.allGames))
                       ELSE pc' = pc /\ outcome' = outcome
    /\ archiveIdx' = archiveIdx + 1
    /\ UNCHANGED <<tz, relevantArchives>>
    /\ UNCHANGED <<pcVars, pgnVars, liVars, queryVars, gameVars, tcVars, uiVars>>

\* lichess.ts:91 and 100: the request fails, or reading its body does
StreamThrows ==
    /\ pc = "body"
    /\ Finish(Rejected(FailedToFetch))
    /\ fetchLog' = Append(fetchLog, [what |-> "stream", ok |-> FALSE,
                                     archive |-> 0, games |-> <<>>])
    /\ UNCHANGED <<tz, relevantArchives, archiveIdx, allGames>>
    /\ UNCHANGED <<pcVars, pgnVars, liVars, queryVars, gameVars, tcVars, uiVars>>

\* lichess.ts:96-103: a non-success status, or a body of white space only
StreamNotFound ==
    /\ pc = "body"
    /\ Finish(Rejected(NoGamesFound))
    /\ fetchLog' = Append(fetchLog, [what |-> "stream", ok |-> FALSE,
                                     archive |-> 0, games |-> <<>>])
    /\ UNCHANGED <<tz, relevantArchives, archiveIdx, allGames>>
    /\ UNCHANGED <<pcVars, pgnVars, liVars, queryVars, gameVars, tcVars, uiVars>>

\* lichess.ts:105-187: every line is parsed, then the games are filtered
\* and mapped
StreamBody ==
    /\ pc = "body"
    /\ \E lines \in SeqsUpTo(BodyLines, MaxLines) \ {<<>>} :
           LET parsedGames == [k \in 1..Len(lines) |-> lines[k].game]
           IN  /\ allGames' = parsedGames
               /\ fetchLog' = Append(fetchLog, [what |-> "stream", ok |-> TRUE,
                                                archive |-> 0, games |-> lines])
               /\ IF \E k \in 1..Len(lines) : lines[k].kind = "malformed"
                  THEN Finish(Rejected(UnexpectedToken))
                  ELSE IF \E k \in 1..Len(lines) : lines[k].kind = "notAGame"
                       THEN Finish(Rejected(CannotRead))
                       ELSE Finish(Settle(FilteredGamesB(parsedGames, username)))
    /\ UNCHANGED <<tz, relevantArchives, archiveIdx>>
    /\ UNCHANGED <<pcVars, pgnVars, liVars, queryVars, gameVars, tcVars, uiVars>>

NextFetch ==
    \/ IndexThrows \/ IndexNotFound \/ IndexOk \/ ArchiveFetched
    \/ StreamThrows \/ StreamNotFound \/ StreamBody

SpecFetch == InitFetch /\ [][NextFetch]_vars

---------------------------------------------------------------------------
(* Properties of one call of an adapter (SpecFetch) *)

\* The responses to the archive requests made so far, in order
RECURSIVE ArchiveEntries(_)
ArchiveEntries(log) ==
    IF log = <<>> THEN <<>>
    ELSE (IF Head(log).what = "archive" THEN <<Head(log)>> ELSE <<>>)
             \o ArchiveEntries(Tail(log))

ArchiveLog == ArchiveEntries(fetchLog)

RECURSIVE GamesOfOk(_)
GamesOfOk(log) ==
    IF log = <<>> THEN <<>>
    ELSE (IF Head(log).ok THEN Head(log).games ELSE <<>>) \o GamesOfOk(Tail(log))

\* The call got as far as filtering the games it fetched
ReachedFilterA ==
    /\ platform = "chess.com" /\ pc = "done"
    /\ fetchLog # <<>> /\ fetchLog[1].what = "index" /\ fetchLog[1].ok

ReachedFilterB ==
    /\ platform = "lichess.org" /\ pc = "done"
    /\ fetchLog # <<>> /\ fetchLog[1].ok
    /\ \A k \in 1..Len(fetchLog[1].games) : fetchLog[1].games[k].kind = "game"

\* The games of the successful responses that pass the adapter's filters
SurvivorsA == KeptA(GamesOfOk(ArchiveLog), username, startDate, endDate, gameType)

SurvivorsB == KeptB(allGames, username)

\* C5: no call resolves with an empty list, and a call whose fetched games
\* all fail the filters (or that fetched none) rejects with 'No games found'.
C5_NeverEmpty ==
    /\ outcome.state = "fulfilled" => Len(outcome.games) > 0
    /\ (ReachedFilterA /\ SurvivorsA = <<>>) =>
           (outcome.state = "rejected" /\ outcome.error = NoGamesFound)
    /\ (ReachedFilterB /\ SurvivorsB = <<>>) =>
           (outcome.state = "rejected" /\ outcome.error = NoGamesFound)

\* Service A fetched two archives, each returned a game, and neither game
\* passes the filters: the call rejected with 'No games found'.
C5_Witness ==
    /\ ReachedFilterA
    /\ Len(ArchiveLog) = 2
    /\ \A k \in 1..2 : ArchiveLog[k].ok /\ Len(ArchiveLog[k].games) = 1
    /\ SurvivorsA = <<>>
    /\ outcome.state = "rejected" /\ outcome.error = NoGamesFound

\* C6 as stated: whatever makes a call fail, the error the caller gets is
\* the one with the message 'No games found'.
C6_Stated ==
    outcome.state = "rejected" => outcome.error.message = "No games found"

\* C7: service A requests every relevant archive once, in order, whatever
\* the earlier requests returned; allGames holds the games of the requests
\* that succeeded; and the call resolves with exactly the games among those
\* that pass the filters, rejecting only when there are none.
C7_ArchiveFailuresSkipped ==
    (platform = "chess.com" /\ pc \in {"archives", "done"} /\ fetchLog[1].ok) =>
        /\ Len(ArchiveLog) = archiveIdx - 1
        /\ \A k \in 1..Len(ArchiveLog) : ArchiveLog[k].archive = relevantArchives[k]
        /\ allGames = GamesOfOk(ArchiveLog)
        /\ pc = "done" =>
               LET survivors == SurvivorsA
               IN  /\ Len(ArchiveLog) = Len(relevantArchives)
                   /\ IF survivors = <<>>
                      THEN outcome.state = "rejected"
                      ELSE /\ outcome.state = "fulfilled"
                           /\ Len(outcome.games) = Len(survivors)
                           /\ {outcome.games[k].id : k \in 1..Len(outcome.games)}
                                  = {survivors[k].url : k \in 1..Len(survivors)}

\* The first of two relevant archives could not be fetched, the second
\* returned a game that passes the filters: the call resolved with that game.
C7_Witness ==
    /\ platform = "chess.com" /\ pc = "done"
    /\ Len(relevantArchives) = 2
    /\ Len(ArchiveLog) = 2
    /\ ~ArchiveLog[1].ok
    /\ ArchiveLog[2].ok
    /\ outcome.state = "fulfilled"
    /\ Len(outcome.games) = 1
    /\ outcome.games[1].id = ArchiveLog[2].games[1].url


\* The archive index was read: its log entry lists the months of the service
IndexRead == fetchLog # <<>> /\ fetchLog[1].what = "index" /\ fetchLog[1].ok

\* The archive of month mo holds a game that ended within the window
HoldsGameInWindow(mo) ==
    \E g \in GamesOfMonth(mo) :
        /\ g.end_time >= StartTimestamp(startDate)
        /\ LeqEnd(g.end_time, EndTimestamp(endDate))

\* C19 as stated: for any window and any timezone offset, every listed
\* monthly archive that holds a game whose end time lies within
\* [startTimestamp, endTimestamp] is retained by the overlap filter.
C19_Stated ==
    IndexRead =>
        \A k \in 1..Len(fetchLog[1].games) :
            HoldsGameInWindow(fetchLog[1].games[k]) =>
                \E j \in 1..Len(relevantArchives) :
                    relevantArchives[j] = fetchLog[1].games[k]


---------------------------------------------------------------------------
(* ChessNapTracker.tsx: the component's state, its handlers and the rows it
   renders.  The rows are shown in flatMap order; the sort of lines 323-329
   permutes them and is not modelled. *)

\* parseInt(s) of a string without leading blanks or sign: the number its
\* leading digits denote, NaN when it has none
RECURSIVE DigitPrefix(_)
DigitPrefix(s) ==
    IF s = <<>> \/ Head(s) \notin Digit THEN <<>>
    ELSE <<Head(s)>> \o DigitPrefix(Tail(s))

NumberOfPrefix(digits) ==
    IF digits = <<>> THEN NaN ELSE [nan |-> FALSE, v |-> Number(digits)]

parseInt(s) == NumberOfPrefix(DigitPrefix(s))

\* x >= n in JavaScript: false for NaN
GeqNumber(x, n) == ~x.nan /\ x.v >= n

\* game.moves / game.clocks is present
HasMoves(game) == "moves" \in DOMAIN game

HasClocks(game) == "clocks" \in DOMAIN game

\* ChessNapTracker.tsx:286
IsWhiteRow(game, user) == toLowerCase(game.whitePlayer) = toLowerCase(user)

\* ChessNapTracker.tsx:297 and 311
LinkMoveNumber(isWhite, moveNumber) ==
    IF isWhite THEN moveNumber * 2 - 1 ELSE moveNumber * 2

\* ChessNapTracker.tsx:292-302, for a move of service B
MoveRow(game, move, isWhite) ==
    [move           |-> move.move,
     timeSpent      |-> IF isWhite THEN move.timeSpentWhite ELSE move.timeSpentBlack,
     moveNumber     |-> move.moveNumber,
     isWhite        |-> isWhite,
     linkMoveNumber |-> LinkMoveNumber(isWhite, move.moveNumber),
     date           |-> game.date,
     players        |-> <<game.whitePlayer, game.blackPlayer>>,
     timeControl    |-> game.timeControl,
     gameId         |-> game.id]

\* ChessNapTracker.tsx:306-316, for a clocks entry of service A
ClockRow(game, clock, isWhite) ==
    [move           |-> clock.moveText,
     timeSpent      |-> clock.timeSpent,
     moveNumber     |-> clock.moveNumber,
     isWhite        |-> isWhite,
     linkMoveNumber |-> LinkMoveNumber(isWhite, clock.moveNumber),
     date           |-> game.date,
     players        |-> <<game.whitePlayer, game.blackPlayer>>,
     timeControl    |-> game.timeControl,
     gameId         |-> game.id]

\* ChessNapTracker.tsx:303 and 317
PassesTimeFilter(row, minTime) ==
    row.timeSpent # Null /\ GeqNumber(parseInt(row.timeSpent), minTime)

RowIfShown(row, minTime) == IF PassesTimeFilter(row, minTime) THEN <<row>> ELSE <<>>

\* ChessNapTracker.tsx:290-303, from the move at 0-based index k on
RECURSIVE MoveRows(_, _, _, _)
MoveRows(game, k, isWhite, minTime) ==
    IF k >= Len(game.moves) THEN <<>>
    ELSE (IF (k % 2 = 0) = isWhite
          THEN RowIfShown(MoveRow(game, game.moves[k + 1], isWhite), minTime)
          ELSE <<>>)
         \o MoveRows(game, k + 1, isWhite, minTime)

\* ChessNapTracker.tsx:305-317, from the entry at 0-based index k on
RECURSIVE ClockRows(_, _, _, _)
ClockRows(game, k, isWhite, minTime) ==
    IF k >= Len(game.clocks) THEN <<>>
    ELSE (IF game.clocks[k + 1].isWhite = isWhite
          THEN RowIfShown(ClockRow(game, game.clocks[k + 1], isWhite), minTime)
          ELSE <<>>)
         \o ClockRows(game, k + 1, isWhite, minTime)

\* The flatMap callback of ChessNapTracker.tsx:285-320
RowsOfGame(game, user, plat, minTime) ==
    IF plat = "lichess.org" /\ HasMoves(game)
    THEN MoveRows(game, 0, IsWhiteRow(game, user), minTime)
    ELSE IF HasClocks(game)
         THEN ClockRows(game, 0, IsWhiteRow(game, user), minTime)
         ELSE <<>>

\* ChessNapTracker.tsx:283-321
RECURSIVE RowsOf(_, _, _, _)
RowsOf(gs, user, plat, minTime) ==
    IF gs = <<>> THEN <<>>
    ELSE RowsOfGame(Head(gs), user, plat, minTime)
             \o RowsOf(Tail(gs), user, plat, minTime)

\* The rows of the table as rendered from the component's state
Rows == RowsOf(games, username, platform, minTimeFilter)

\* handleMoveClick, ChessNapTracker.tsx:82-88, with openLichessPosition
\* (lichess.ts:196-198) and openChessComPosition (chess-com.ts:284-290): the
\* site of the window opened, and the game id and the index it is given.
\* from is history: the platform whose adapter returned the games.
handleMoveClick(gameId, moveNumber, plat, from) ==
    [site |-> plat, gameId |-> gameId, moveNumber |-> moveNumber, from |-> from]

\* Mutant of FetchDisabled: the button is never disabled
FetchDisabled_Never(loading) == FALSE

\* ChessNapTracker.tsx:225: disabled={isLoading}
FetchDisabled(loading) == loading


---------------------------------------------------------------------------
(* The component under user actions and adapter completions *)

MaxInFlight == 2

\* Four plies, each with a clock
PgnAllClocks ==
    <<Ply(1, [hasBrace |-> TRUE, comment |-> Clk_1_00_00]),
      Ply(2, [hasBrace |-> TRUE, comment |-> Clk_1_00_00]),
      Ply(3, [hasBrace |-> TRUE, comment |-> Clk_0_10_00]),
      Ply(4, [hasBrace |-> TRUE, comment |-> Clk_0_09_50])>>

\* Four plies, the first annotated with an evaluation and no clock
PgnEvalFirst ==
    <<Ply(1, [hasBrace |-> TRUE, comment |-> PgnJunkComment]),
      Ply(2, [hasBrace |-> TRUE, comment |-> Clk_1_00_00]),
      Ply(3, [hasBrace |-> TRUE, comment |-> Clk_1_00_00]),
      Ply(4, [hasBrace |-> TRUE, comment |-> Clk_0_10_00])>>

\* Four plies, black's first without annotation
PgnBareSecond ==
    <<Ply(1, [hasBrace |-> TRUE, comment |-> Clk_1_00_00]),
      Ply(2, [hasBrace |-> FALSE, comment |-> Null]),
      Ply(3, [hasBrace |-> TRUE, comment |-> Clk_0_10_00]),
      Ply(4, [hasBrace |-> TRUE, comment |-> Clk_0_09_50])>>

\* Game n of service A, between Ann (white) and Bob, with move list p
UiGameA(n, p) ==
    [ArchiveGame(n, SecondsPerDay + SecondsPerHour, Ann, Bob, "chess")
        EXCEPT !.pgn = p]

UiRawGamesA == {UiGameA(1, PgnAllClocks), UiGameA(2, PgnEvalFirst),
                UiGameA(3, PgnBareSecond)}

\* What the archive loop of service A can have collected
UiAllGames == {<<>>} \cup {<<g>> : g \in UiRawGamesA}

\* A game of service B between Ann (white) and Bob
UiGameB ==
    [id         |-> "q7ZvsdUF",
     createdAt  |-> 1000 * (SecondsPerDay + SecondsPerHour),
     movesArray |-> <<SanAt(1), SanAt(2), SanAt(3), SanAt(4)>>,
     hasClocks  |-> TRUE,
     clocks     |-> <<18000, 18000, 15000, 16000>>,
     hasClock   |-> TRUE,
     clock      |-> [initial |-> 180, increment |-> 2],
     players    |-> [white |-> [user |-> [name |-> Ann], rating |-> 1500,
                                aiLevel |-> 0],
                     black |-> [user |-> [name |-> Bob], rating |-> 1600,
                                aiLevel |-> 0]],
     winner     |-> "white",
     speed      |-> "blitz",
     rated      |-> TRUE,
     initialFen |-> ""]

\* What the stream of service B can have held
UiParsedGames == {<<>>, <<UiGameB>>}

UiUsernames == {Null, <<"a", "n", "n">>, <<"b", "o", "b">>}

UiMinTimes == {0, 20}

\* The promise an adapter call can settle to: ChessNapTracker.tsx:101-103
AdapterOutcomes(call) ==
    {Rejected(FailedToFetch)}
    \cup (IF call.platform = "chess.com"
          THEN {Settle(FilteredGamesA(all, call.username, call.startDate,
                                      call.endDate, call.gameType)) :
                    all \in UiAllGames}
          ELSE {Settle(FilteredGamesB(parsedGames, call.username)) :
                    parsedGames \in UiParsedGames})

\* The component after construction (ChessNapTracker.tsx:62-76), the date
\* inputs holding a window around the games of the two services
InitUI ==
    /\ platform = "chess.com"
    /\ username = Null
    /\ gameType = "all"
    /\ startDate = [given |-> TRUE, day |-> 0]
    /\ endDate = [given |-> TRUE, day |-> MaxArchives * DaysPerMonth]
    /\ rawGame = Null /\ querySide = "white" /\ normalized = <<>> /\ gameDone = TRUE
    /\ FetchIdle
    /\ TimingIdle
    /\ UiIdle

\* ChessNapTracker.tsx:144: onChange of the username input
SetUsername ==
    /\ \E u \in UiUsernames : username' = u
    /\ UNCHANGED <<platform, gameType, startDate, endDate>>
    /\ UNCHANGED <<pcVars, pgnVars, liVars, gameVars, fetchVars, tcVars, uiVars>>

\* ChessNapTracker.tsx:156 and 166: the two platform buttons
SetPlatform ==
    /\ \E p \in {"chess.com", "lichess.org"} : platform' = p
    /\ UNCHANGED <<username, gameType, startDate, endDate>>
    /\ UNCHANGED <<pcVars, pgnVars, liVars, gameVars, fetchVars, tcVars, uiVars>>

\* ChessNapTracker.tsx:265: onChange of the minimum-time input, which is
\* rendered with the table (line 247)
SetMinTimeFilter ==
    /\ Len(games) > 0
    /\ \E n \in UiMinTimes : minTimeFilter' = n
    /\ UNCHANGED <<isLoading, games, error, inFlight, gamesFrom, opened>>
    /\ UNCHANGED <<pcVars, pgnVars, liVars, queryVars, gameVars, fetchVars, tcVars>>

\* fetchGames up to its await, ChessNapTracker.tsx:90-103, run by a click on
\* the fetch button (223-226)
ClickFetch ==
    /\ ~FetchDisabled(isLoading)
    /\ Len(inFlight) < MaxInFlight
    /\ IF username = Null
       THEN /\ error' = "Please enter a username"
            /\ UNCHANGED <<isLoading, games, inFlight, gamesFrom>>
       ELSE /\ isLoading' = TRUE
            /\ error' = ""
            /\ games' = <<>>
            /\ gamesFrom' = ""
            /\ inFlight' = Append(inFlight,
                              [platform  |-> platform,
                               username  |-> username,
                               startDate |-> startDate,
                               endDate   |-> endDate,
                               gameType  |-> gameType])
    /\ UNCHANGED <<minTimeFilter, opened>>
    /\ UNCHANGED <<pcVars, pgnVars, liVars, queryVars, gameVars, fetchVars, tcVars>>

\* fetchGames after its await, ChessNapTracker.tsx:101-110: the promise of
\* the oldest call settles
AdapterSettles ==
    /\ inFlight # <<>>
    /\ \E o \in AdapterOutcomes(Head(inFlight)) :
           IF o.state = "fulfilled"
           THEN /\ games' = o.games
                /\ gamesFrom' = Head(inFlight).platform
                /\ error' = error
           ELSE /\ error' = o.error.message
                /\ UNCHANGED <<games, gamesFrom>>
    /\ isLoading' = FALSE
    /\ inFlight' = Tail(inFlight)
    /\ UNCHANGED <<minTimeFilter, opened>>
    /\ UNCHANGED <<pcVars, pgnVars, liVars, queryVars, gameVars, fetchVars, tcVars>>

\* ChessNapTracker.tsx:334: a click on a row of the table
ClickRow ==
    /\ \E k \in 1..Len(Rows) :
           opened' = handleMoveClick(Rows[k].gameId, Rows[k].linkMoveNumber,
                                     platform, gamesFrom)
    /\ UNCHANGED <<isLoading, games, error, minTimeFilter, inFlight, gamesFrom>>
    /\ UNCHANGED <<pcVars, pgnVars, liVars, queryVars, gameVars, fetchVars, tcVars>>

NextUI ==
    \/ SetUsername \/ SetPlatform \/ SetMinTimeFilter
    \/ ClickFetch \/ AdapterSettles \/ ClickRow

SpecUI == InitUI /\ [][NextUI]_vars


---------------------------------------------------------------------------
(* Properties of the component *)

\* The 1-based index, in the move list the service holds for the row's
\* game, of the ply the row displays
PlyIndexA(row) ==
    LET raw == CHOOSE g \in UiRawGamesA : g.url = row.gameId
    IN  CHOOSE j \in 1..Len(raw.pgn) : raw.pgn[j].san = row.move

PlyIndexB(row) ==
    CHOOSE j \in 1..Len(UiGameB.movesArray) : UiGameB.movesArray[j] = row.move

PlyIndexOf(row) ==
    IF gamesFrom = "chess.com" THEN PlyIndexA(row) ELSE PlyIndexB(row)

\* C16 as stated: for every row displayed, for both services, the link
\* index passed to the viewer is isWhite ? n*2-1 : n*2 of the row's
\* full-move number n, and it equals the 1-based ply index of the row's move
\* in the game.
C16_Stated ==
    \A k \in 1..Len(Rows) :
        /\ Rows[k].linkMoveNumber =
               LinkMoveNumber(Rows[k].isWhite, Rows[k].moveNumber)
        /\ Rows[k].linkMoveNumber = PlyIndexOf(Rows[k])

\* C17: under any interleaving of username edits, platform switches, clicks
\* on the fetch button and adapter completions, at most one adapter call is
\* in flight; while one is in flight the games list and the error are empty
\* and isLoading is true; games or an error are visible only when no call is
\* in flight, and then isLoading is false.
C17_SingleFlight ==
    /\ Len(inFlight) <= 1
    /\ inFlight # <<>> => games = <<>> /\ error = "" /\ isLoading
    /\ (games # <<>> \/ error # "") => inFlight = <<>> /\ ~isLoading

\* A call is in flight and the user has since switched the platform and
\* edited the username
C17_Witness ==
    /\ Len(inFlight) = 1
    /\ isLoading
    /\ inFlight[1].platform # platform
    /\ inFlight[1].username # username

\* C20 as stated: a click on a displayed row opens the viewer of the service
\* the row's game was fetched from, and the displayed rows are those derived
\* with that service's mapping, whatever the platform selector and the
\* username are changed to after the fetch completed.
C20_Stated ==
    /\ opened.site # "" => opened.site = opened.from
    /\ games # <<>> => Rows = RowsOf(games, username, gamesFrom, minTimeFilter)

====
